---------------------------- MODULE Spec2Model ----------------------------
(***************************************************************************)
(* A model of the claude2 client (src/src/api.rs, src/src/utils.rs,        *)
(* src/src/objects.rs): Client::try_new, the proxy setters, the            *)
(* conversation operations, upload_attachment and send_message with its    *)
(* decoding of the streamed reply.                                         *)
(*                                                                         *)
(* Text is a sequence of characters, each a one-token string.  "E2" stands *)
(* for a character whose UTF-8 encoding takes two bytes; every other       *)
(* character takes one byte.  "\f" is whitespace for Rust's str::trim and  *)
(* is not whitespace for JSON.                                             *)
(***************************************************************************)
EXTENDS Integers, Sequences, FiniteSets, TLC

VARIABLES
    body,       \* the bytes request() returned to send_message's closure
    reply,      \* what that closure made of them
    orgInput,   \* the arguments and the environment of the last try_new
    built,      \* what the last try_new returned
    session,    \* the Client value: cookie, proxys, organization_id, base_header
    calls,      \* the operations invoked on the Client, in order of invocation
    remote,     \* the remote service: its conversations
    test        \* test_full_workflow: its position and its local variables

vars == <<body, reply, orgInput, built, session, calls, remote, test>>

(***************************************************************************)
(* Bounds of the model.                                                    *)
(***************************************************************************)
MaxLines == 2
MaxProxies == 2
MaxCalls == 2
MaxOrgs == 2

(***************************************************************************)
(* Results.  A Rust Result is Ok(v) or Err(e); a panic unwinds the task    *)
(* and is neither.                                                         *)
(***************************************************************************)
Ok(v) == [kind |-> "Ok", value |-> v]
Err(e) == [kind |-> "Err", error |-> e]
Panic(m) == [kind |-> "Panic", message |-> m]
NotRun == [kind |-> "NotRun"]

IsOk(r) == r.kind = "Ok"
IsErr(r) == r.kind = "Err"
IsPanic(r) == r.kind = "Panic"

(***************************************************************************)
(* Characters and bytes.                                                   *)
(***************************************************************************)
ByteLen(c) == IF c = "E2" THEN 2 ELSE 1

\* char::is_whitespace, as str::trim uses it
IsWhitespace(c) == c \in {" ", "\n", "\f"}

\* the whitespace serde_json skips
IsJsonWhitespace(c) == c \in {" ", "\n"}

RECURSIVE TrimStart(_)
TrimStart(s) ==
    IF s # <<>> /\ IsWhitespace(Head(s)) THEN TrimStart(Tail(s)) ELSE s

RECURSIVE TrimEnd(_)
TrimEnd(s) ==
    IF s # <<>> /\ IsWhitespace(s[Len(s)])
    THEN TrimEnd(SubSeq(s, 1, Len(s) - 1))
    ELSE s

\* str::trim
Trim(s) == TrimEnd(TrimStart(s))

\* str::split("\n"), collected: never empty, the empty string gives one empty piece
RECURSIVE SplitFrom(_, _, _)
SplitFrom(s, cur, acc) ==
    IF s = <<>> THEN Append(acc, cur)
    ELSE IF Head(s) = "\n" THEN SplitFrom(Tail(s), <<>>, Append(acc, cur))
    ELSE SplitFrom(Tail(s), Append(cur, Head(s)), acc)

SplitLines(s) == SplitFrom(s, <<>>, <<>>)

\* Iterator::last on the pieces: None only for no piece at all
LastPiece(pieces) ==
    IF pieces = <<>> THEN NotRun ELSE Ok(pieces[Len(pieces)])

\* &data[n..]: panics when n is past the end or inside a character
RECURSIVE SliceFrom(_, _)
SliceFrom(data, n) ==
    IF n = 0 THEN Ok(data)
    ELSE IF data = <<>> THEN Panic("byte index out of bounds")
    ELSE IF ByteLen(Head(data)) > n THEN Panic("byte index is not a char boundary")
    ELSE SliceFrom(Tail(data), n - ByteLen(Head(data)))

RECURSIVE SkipJsonWs(_)
SkipJsonWs(s) ==
    IF s # <<>> /\ IsJsonWhitespace(Head(s)) THEN SkipJsonWs(Tail(s)) ELSE s

RECURSIVE Digits(_)
Digits(s) ==
    IF s # <<>> /\ Head(s) = "1" THEN <<"1">> \o Digits(Tail(s)) ELSE <<>>

(***************************************************************************)
(* serde_json::Value.  t is the variant; s the text of a string, d the     *)
(* digits of a number (or the characters of a string that is given by its  *)
(* characters), a the elements of an array, f the entries of an object,    *)
(* each <<>> or "" in the other variants.                                  *)
(***************************************************************************)
JValue(t, s, d, a, f) == [t |-> t, s |-> s, d |-> d, a |-> a, f |-> f]
JNull == JValue("null", "", <<>>, <<>>, <<>>)
JStr(s) == JValue("str", s, <<>>, <<>>, <<>>)
JNum(ds) == JValue("num", "", ds, <<>>, <<>>)
JArr(a) == JValue("arr", "", <<>>, a, <<>>)
JObj(f) == JValue("obj", "", <<>>, <<>>, f)
\* a string given by its characters
JText(cs) == JValue("str", "", cs, <<>>, <<>>)
Entry(k, val) == [k |-> k, val |-> val]

(***************************************************************************)
(* serde_json::from_str / from_slice on text.  Over the characters of the  *)
(* model the only JSON texts are the numbers 1, 11, ... with JSON          *)
(* whitespace around them.                                                 *)
(***************************************************************************)
ParseJsonText(s) ==
    LET t == SkipJsonWs(s)
        ds == Digits(t)
        rest == SkipJsonWs(SubSeq(t, Len(ds) + 1, Len(t)))
    IN  IF ds = <<>> THEN Err("json: expected value")
        ELSE IF rest # <<>> THEN Err("json: trailing characters")
        ELSE Ok(JNum(ds))

\* Value::to_string of a number
JsonToString(v) == v.d

\* api.rs:275, the length of the marker that starts the terminal record
PrefixLen == 6

\* the marker of an event-stream record
Prefix == <<"d", "a", "t", "a", ":", " ">>

(***************************************************************************)
(* The closure of send_message applied to the bytes of the reply           *)
(* (api.rs:268-279).                                                       *)
(***************************************************************************)
StreamDecode(bytes) ==
    LET s == bytes
        last == LastPiece(SplitLines(Trim(s)))
    IN  IF ~IsOk(last) THEN Err("wrong response format")
        ELSE LET data == SliceFrom(last.value, PrefixLen)
             IN  IF IsPanic(data) THEN data
                 ELSE ParseJsonText(data.value)

(***************************************************************************)
(* JSON documents.  The body of a JSON endpoint is given by the tree       *)
(* serde_json::from_slice makes of it, or is no JSON at all.               *)
(***************************************************************************)
JsonBody(doc) == [kind |-> "json", doc |-> doc]
TextBody(s) == [kind |-> "text", text |-> s]
Garbage == [kind |-> "garbage"]

\* serde_json::from_slice::<Value>
ParseJson(content) ==
    IF content.kind = "json" THEN Ok(content.doc)
    ELSE IF content.kind = "text" THEN ParseJsonText(content.text)
    ELSE Err("json: expected value")

\* Value::get(key) is Some: the value is an object that has the key
HasKey(value, key) ==
    value.t = "obj" /\ \E i \in 1..Len(value.f) : value.f[i].k = key

\* Value::get(key), when it is Some
Get(value, key) ==
    value.f[CHOOSE i \in 1..Len(value.f) : value.f[i].k = key].val

\* Value::as_str().unwrap_or("")
AsStrOrEmpty(value) == IF value.t = "str" THEN value.s ELSE ""

(***************************************************************************)
(* get_organization_id (api.rs:85-93).  The index [0] of an empty array    *)
(* panics.                                                                 *)
(***************************************************************************)
get_organization_id(content) ==
    LET response == ParseJson(content)
    IN  IF ~IsOk(response) THEN response
        ELSE IF response.value.t # "arr" THEN Err("no organization info found")
        ELSE IF response.value.a = <<>> THEN Panic("index out of bounds")
        ELSE IF ~HasKey(response.value.a[1], "uuid")
        THEN Err("no organization id found")
        ELSE Ok(AsStrOrEmpty(Get(response.value.a[1], "uuid")))

(***************************************************************************)
(* Proxies.  A proxy string is its scheme and the rest of the URI.         *)
(***************************************************************************)
SupportedSchemes == {"http", "https", "socks5"}

\* reqwest::Proxy::all, by the schemes api.rs:23 lists
ProxyAll(p) ==
    IF p.scheme \in SupportedSchemes THEN Ok(p) ELSE Err("unknown proxy scheme")

\* a loop that pushes every entry
PushEvery(proxys) == proxys

\* the loop of try_new (api.rs:40-49)
RECURSIVE ValidProxies(_)
ValidProxies(proxys) ==
    IF proxys = <<>> THEN <<>>
    ELSE IF IsOk(ProxyAll(Head(proxys)))
    THEN <<ProxyAll(Head(proxys)).value>> \o ValidProxies(Tail(proxys))
    ELSE ValidProxies(Tail(proxys))

\* HeaderValue::from_str: no control character
ValidHeaderValue(s) == \A i \in 1..Len(s) : s[i] \notin {"\n", "\f"}

\* the header map try_new builds (api.rs:25-35)
BaseHeaders(cookie) ==
    [Host |-> "claude.ai",
     Cookie |-> cookie,
     Referer |-> "https://claude.ai/chats",
     ContentType |-> "application/json",
     Accept |-> "*/*",
     UserAgent |-> "Mozilla/5.0",
     AcceptLanguage |-> "en-US,en;q=0.9,zh-CN;q=0.8,zh;q=0.7,en-GB;q=0.6"]

NoSession == [kind |-> "none"]

Client(cookie, proxys, organization_id, base_header) ==
    [kind |-> "client",
     cookie |-> cookie,
     proxys |-> proxys,
     organization_id |-> organization_id,
     base_header |-> base_header]

(***************************************************************************)
(* Client::try_new (api.rs:24-69), given what request() returns for the    *)
(* organization listing.                                                   *)
(***************************************************************************)
try_new(cookie, proxys, listing) ==
    IF ~ValidHeaderValue(cookie) THEN Err("invalid header value")
    ELSE LET headers == BaseHeaders(cookie)
             reqwest_proxies == ValidProxies(proxys)
         IN  IF ~IsOk(listing) THEN Err("transport")
             ELSE LET organization_id == get_organization_id(listing.value)
                  IN  IF ~IsOk(organization_id) THEN organization_id
                      ELSE Ok(Client(cookie, reqwest_proxies,
                                     organization_id.value, headers))

\* Client::reset_proxy (api.rs:71-73)
reset_proxy(self) == [self EXCEPT !.proxys = <<>>]

\* Client::proxy (api.rs:75-82)
proxy(self, p) ==
    IF IsOk(ProxyAll(p))
    THEN [self EXCEPT !.proxys = Append(@, ProxyAll(p).value)]
    ELSE self

\* a setter declared with shared access
SharedBorrow == TRUE

(***************************************************************************)
(* reset_proxy and proxy take &mut self (api.rs:71, 75): the borrow        *)
(* checker admits them only while no future of an operation, which holds   *)
(* &self, is alive.                                                        *)
(***************************************************************************)
ExclusiveBorrow == \A i \in DOMAIN calls : calls[i].pc = "done"

(***************************************************************************)
(* The inputs of the model.                                                *)
(***************************************************************************)
SeqsUpTo(S, n) == UNION {[1..k -> S] : k \in 0..n}

Cookies == {<<"k">>, <<"k", "\n">>}

ProxyStrings ==
    {[scheme |-> "http", rest |-> "127.0.0.1:8088"],
     [scheme |-> "https", rest |-> "127.0.0.1:8088"],
     [scheme |-> "socks5", rest |-> "127.0.0.1:1080"],
     [scheme |-> "ftp", rest |-> "127.0.0.1:21"]}

OrgElems ==
    {JNull,
     JStr("org-1"),
     JObj(<<Entry("name", JStr("acme"))>>),
     JObj(<<Entry("uuid", JStr("org-1"))>>),
     JObj(<<Entry("name", JStr("acme")), Entry("uuid", JStr("org-2"))>>),
     JObj(<<Entry("uuid", JStr(""))>>),
     JObj(<<Entry("uuid", JNull)>>),
     JObj(<<Entry("uuid", JNum(<<"1">>))>>)}

OrgBodies ==
    {Garbage, JsonBody(JNull), JsonBody(JObj(<<Entry("uuid", JStr("org-1"))>>))}
    \cup {JsonBody(JArr(a)) : a \in SeqsUpTo(OrgElems, MaxOrgs)}

OrgListings == {Err("transport")} \cup {Ok(b) : b \in OrgBodies}

(***************************************************************************)
(* Actions on the Client value.                                            *)
(***************************************************************************)
Construct(cookies, proxyLists, listings) ==
    /\ built.kind = "NotRun"
    /\ \E cookie \in cookies, proxys \in proxyLists, listing \in listings :
          /\ orgInput' = [cookie |-> cookie, proxys |-> proxys, listing |-> listing]
          /\ built' = try_new(cookie, proxys, listing)
          /\ session' = IF IsOk(built') THEN built'.value ELSE NoSession
    /\ UNCHANGED <<body, reply, calls, remote, test>>

SetProxy(proxyStrings) ==
    /\ session.kind = "client"
    /\ ExclusiveBorrow
    /\ Len(session.proxys) < MaxProxies
    /\ \E p \in proxyStrings : session' = proxy(session, p)
    /\ UNCHANGED <<body, reply, orgInput, built, calls, remote, test>>

ResetProxy ==
    /\ session.kind = "client"
    /\ ExclusiveBorrow
    /\ session' = reset_proxy(session)
    /\ UNCHANGED <<body, reply, orgInput, built, calls, remote, test>>

NoTest == [pc |-> "none"]

InitIdle ==
    /\ body = <<>>
    /\ reply = NotRun
    /\ orgInput = [cookie |-> <<>>, proxys |-> <<>>, listing |-> NotRun]
    /\ built = NotRun
    /\ session = NoSession
    /\ calls = <<>>
    /\ remote = <<>>
    /\ test = NoTest

(***************************************************************************)
(* SpecConstruct: one construction, with every organization listing of    *)
(* the model, and the proxy setters after it.                              *)
(***************************************************************************)
TryNewAny == Construct(Cookies, SeqsUpTo(ProxyStrings, MaxProxies), OrgListings)

NextConstruct == TryNewAny \/ SetProxy(ProxyStrings) \/ ResetProxy

SpecConstruct == InitIdle /\ [][NextConstruct]_vars

IsSupported(p) == p.scheme \in SupportedSchemes

ListingDoc == orgInput.listing.value.doc

HasListing ==
    /\ built.kind # "NotRun"
    /\ ValidHeaderValue(orgInput.cookie)
    /\ IsOk(orgInput.listing)

\* C3: try_new fails with a construction error, and returns no Session, whenever
\* the organization listing is an empty array, is not an array, or has a first
\* element without a uuid field.
C3_ConstructFails ==
    (/\ HasListing
     /\ \/ orgInput.listing.value.kind # "json"
        \/ ListingDoc.t # "arr"
        \/ ListingDoc.a = <<>>
        \/ ~HasKey(ListingDoc.a[1], "uuid"))
    => (IsErr(built) /\ session.kind = "none")

\* C4: whenever try_new has returned a Session, its organization identifier is
\* a non-empty string, the uuid of the first element of the listing, in every
\* state afterwards.
C4_OrgIdNonEmpty ==
    session.kind = "client"
    => /\ session.organization_id # ""
       /\ Get(ListingDoc.a[1], "uuid").t = "str"
       /\ Get(ListingDoc.a[1], "uuid").s = session.organization_id

\* C5: try_new keeps exactly the supported proxy entries, in input order, and
\* fails or succeeds as it would without the unsupported ones; after any
\* sequence of proxy(p) and reset_proxy() the proxy list holds supported
\* endpoints only.
C5_ProxiesSupported ==
    /\ built.kind # "NotRun" =>
          built.kind = try_new(orgInput.cookie,
                               SelectSeq(orgInput.proxys, IsSupported),
                               orgInput.listing).kind
    /\ IsOk(built) => built.value.proxys = SelectSeq(orgInput.proxys, IsSupported)
    /\ session.kind = "client" =>
          \A i \in 1..Len(session.proxys) : IsSupported(session.proxys[i])

\* a Session built from a list mixing supported and unsupported entries, whose
\* proxy list a later proxy(p) has extended
C5_Witness ==
    /\ session.kind = "client"
    /\ \E i \in 1..Len(orgInput.proxys) : ~IsSupported(orgInput.proxys[i])
    /\ \E i \in 1..Len(orgInput.proxys) : IsSupported(orgInput.proxys[i])
    /\ Len(session.proxys) > Len(built.value.proxys)

(***************************************************************************)
(* The requests of the operations.  request() (utils.rs:15-47) is given    *)
(* the method, the URL, the proxies, the headers and a body or a form.     *)
(***************************************************************************)
NoBody == [some |-> FALSE, json |-> JNull]
SomeBody(j) == [some |-> TRUE, json |-> j]
NoForm == [some |-> FALSE, orgUuid |-> "", file |-> ""]
SomeForm(org, path) == [some |-> TRUE, orgUuid |-> org, file |-> path]

Request(method, url, proxys, headers, reqBody, form) ==
    [method |-> method, url |-> url, proxys |-> proxys, headers |-> headers,
     body |-> reqBody, form |-> form]

\* api.rs:121
NEW_CHAT_NAME == "test"

\* api.rs:101-115
ListRequest(self) ==
    Request("GET",
            <<"api", "organizations", self.organization_id, "chat_conversations">>,
            self.proxys, self.base_header, NoBody, NoForm)

\* a request that names the conversation by a fixed text
CreateRequestOtherName(self, id) ==
    Request("POST",
            <<"api", "organizations", self.organization_id, "chat_conversations">>,
            self.proxys, self.base_header,
            SomeBody(JObj(<<Entry("name", JStr("new chat")),
                            Entry("uuid", JStr(id))>>)),
            NoForm)

\* api.rs:128-144
CreateRequest(self, id) ==
    Request("POST",
            <<"api", "organizations", self.organization_id, "chat_conversations">>,
            self.proxys, self.base_header,
            SomeBody(JObj(<<Entry("name", JStr(NEW_CHAT_NAME)),
                            Entry("uuid", JStr(id))>>)),
            NoForm)

\* api.rs:152-162
DeleteRequest(self, conversation_id) ==
    Request("DELETE",
            <<"api", "organizations", self.organization_id,
              "chat_conversations", conversation_id>>,
            self.proxys, self.base_header, NoBody, NoForm)

\* api.rs:174-190
RenameRequest(self, conversation_id, new_title) ==
    Request("POST", <<"api", "rename_chat">>,
            self.proxys, self.base_header,
            SomeBody(JObj(<<Entry("conversation_uuid", JStr(conversation_id)),
                            Entry("organization_uuid", JStr(self.organization_id)),
                            Entry("title", JStr(new_title))>>)),
            NoForm)

\* api.rs:208-223: the headers given are the base headers, not the multipart ones
UploadRequest(self, filename) ==
    Request("POST", <<"api", "convert_document">>,
            self.proxys, self.base_header, NoBody,
            SomeForm(self.organization_id, filename))

\* api.rs:244-266
AppendRequest(self, conversation_id, prompt, attachments) ==
    Request("POST", <<"api", "append_message">>,
            self.proxys, self.base_header,
            SomeBody(JObj(<<Entry("attachments", JArr(attachments)),
                            Entry("completion",
                                  JObj(<<Entry("model", JStr("claude-2")),
                                         Entry("prompt", JStr(prompt)),
                                         Entry("timezone", JStr("Asia/Kolkata"))>>)),
                            Entry("conversation_uuid", JStr(conversation_id)),
                            Entry("organization_uuid", JStr(self.organization_id)),
                            Entry("text", JStr(prompt))>>)),
            NoForm)

\* api.rs:285-295
HistoryRequest(self, conversation_id) ==
    Request("GET",
            <<"api", "organizations", self.organization_id,
              "chat_conversations", conversation_id>>,
            self.proxys, self.base_header, NoBody, NoForm)

(***************************************************************************)
(* What the network makes of a request: a transport failure, or a response *)
(* with a status and a body.  request() returns the body of any response,  *)
(* whatever its status (utils.rs:38).                                      *)
(***************************************************************************)
TransportFailure == [kind |-> "failure", status |-> 0, body |-> Garbage]
Response(status, content) == [kind |-> "response", status |-> status, body |-> content]

\* a dispatcher that fails on an error status
request_checked(outcome) ==
    IF outcome.kind = "response" /\ outcome.status < 400
    THEN Ok(outcome.body)
    ELSE Err("transport")

request(outcome) ==
    IF outcome.kind = "response" THEN Ok(outcome.body) ELSE Err("transport")

(***************************************************************************)
(* The decoders of objects.rs.                                             *)
(***************************************************************************)
Rfc3339Dates == {"2023-07-20T11:54:41.108217+00:00"}

\* from_date_string (objects.rs:17-25) on the value of a field
IsDate(value) == value.t = "str" /\ value.s \in Rfc3339Dates

IsString(value) == value.t = "str"

\* the fields of Conversation (objects.rs:6-15)
IsConversation(value) ==
    /\ \A k \in {"uuid", "name", "summary", "created_at", "updated_at"} :
          HasKey(value, k)
    /\ \A k \in {"uuid", "name", "summary"} : IsString(Get(value, k))
    /\ \A k \in {"created_at", "updated_at"} : IsDate(Get(value, k))

\* the fields of ChatMessage (objects.rs:41-55)
IsChatMessage(value) ==
    /\ \A k \in {"uuid", "text", "sender", "index", "created_at", "updated_at",
                 "edited_at", "chat_feedback", "attachments"} : HasKey(value, k)
    /\ \A k \in {"uuid", "text", "sender"} : IsString(Get(value, k))
    /\ Get(value, "index").t = "num"
    /\ \A k \in {"created_at", "updated_at"} : IsDate(Get(value, k))
    /\ Get(value, "attachments").t = "arr"

ChatMessage(value) ==
    [uuid |-> Get(value, "uuid").s,
     text |-> Get(value, "text").s,
     sender |-> Get(value, "sender").s]

\* serde_json::from_slice::<History> (objects.rs:28-38)
DecodeHistory(content) ==
    LET parsed == ParseJson(content)
    IN  IF ~IsOk(parsed) THEN parsed
        ELSE IF ~(/\ IsConversation(parsed.value)
                  /\ HasKey(parsed.value, "chat_messages")
                  /\ Get(parsed.value, "chat_messages").t = "arr"
                  /\ \A i \in 1..Len(Get(parsed.value, "chat_messages").a) :
                        IsChatMessage(Get(parsed.value, "chat_messages").a[i]))
        THEN Err("json: invalid type or missing field")
        ELSE Ok([uuid |-> Get(parsed.value, "uuid").s,
                 name |-> Get(parsed.value, "name").s,
                 chat_messages |->
                     [i \in 1..Len(Get(parsed.value, "chat_messages").a) |->
                         ChatMessage(Get(parsed.value, "chat_messages").a[i])]])

\* serde_json::from_slice::<Vec<Conversation>>
DecodeConversations(content) ==
    LET parsed == ParseJson(content)
    IN  IF ~IsOk(parsed) THEN parsed
        ELSE IF ~(/\ parsed.value.t = "arr"
                  /\ \A i \in 1..Len(parsed.value.a) : IsConversation(parsed.value.a[i]))
        THEN Err("json: invalid type or missing field")
        ELSE Ok([i \in 1..Len(parsed.value.a) |->
                    [uuid |-> Get(parsed.value.a[i], "uuid").s,
                     name |-> Get(parsed.value.a[i], "name").s]])

(***************************************************************************)
(* The operations as futures.  A call is created by invoking the async fn, *)
(* runs to its first request when first polled, and resumes when request() *)
(* returns.  reqs are the requests it has issued, in order, and got what   *)
(* the network made of each; self is the Client as it was when the call    *)
(* was invoked.                                                            *)
(***************************************************************************)
NoAttachment == [some |-> FALSE, path |-> ""]
Attachment(path) == [some |-> TRUE, path |-> path]

\* the files tokio::fs::File::open opens
Files == {"doc.pdf"}

FileOpens(path) == path \in Files

NewCall(op, conversation_id, new_title, prompt, attachment) ==
    [op |-> op, conversation_id |-> conversation_id, new_title |-> new_title,
     prompt |-> prompt, attachment |-> attachment, id |-> "",
     pc |-> "start", reqs |-> <<>>, got |-> <<>>, result |-> NotRun,
     self |-> session]

Issue(c, req, pc) == [c EXCEPT !.reqs = Append(@, req), !.pc = pc]

Finish(c, result) == [c EXCEPT !.result = result, !.pc = "done"]

\* an upload that sends the request before it opens the file
upload_start_late(c, self) ==
    Issue(c, UploadRequest(self, c.attachment.path), "await_upload")

\* upload_attachment up to its request (api.rs:199-224)
upload_start(c, self) ==
    IF ~FileOpens(c.attachment.path) THEN Finish(c, Err("io: no such file"))
    ELSE Issue(c, UploadRequest(self, c.attachment.path), "await_upload")

\* upload_attachment from its response on (api.rs:224-227)
upload_result(content) ==
    IF ~IsOk(content) THEN Err("rename file failed") ELSE ParseJson(content.value)

\* a send_message that appends without the attachment when the upload fails
send_after_upload_lenient(c, self, attachment) ==
    IF ~IsOk(attachment)
    THEN Issue(c, AppendRequest(self, c.conversation_id, c.prompt, <<>>), "await")
    ELSE Issue(c, AppendRequest(self, c.conversation_id, c.prompt,
                                <<JText(JsonToString(attachment.value))>>), "await")

\* send_message once upload_attachment has returned (api.rs:239-266)
send_after_upload(c, self, attachment) ==
    IF ~IsOk(attachment) THEN Finish(c, attachment)
    ELSE Issue(c, AppendRequest(self, c.conversation_id, c.prompt,
                                <<JText(JsonToString(attachment.value))>>), "await")

\* std::str::from_utf8(&bytes).unwrap(), then the closure (api.rs:268-280)
send_result(content) ==
    IF ~IsOk(content) THEN Err("send message failed")
    ELSE CASE content.value.kind = "text" -> StreamDecode(content.value.text)
           [] content.value.kind = "garbage" -> Panic("from_utf8: invalid utf-8")

\* api.rs:145-147
create_result(c, content) ==
    IF IsOk(content) THEN Ok(c.id) ELSE Err("create chat conversation failed")

\* api.rs:163-165
delete_result(content) ==
    IF IsOk(content) THEN Ok("()") ELSE Err("delete chat conversation failed")

\* api.rs:191-193
rename_result(content) ==
    IF IsOk(content) THEN Ok("()") ELSE Err("rename chat conversation failed")

\* api.rs:115-118
list_result(content) ==
    IF IsOk(content) THEN DecodeConversations(content.value) ELSE content

\* api.rs:296-298
history_result(content) ==
    IF IsOk(content) THEN DecodeHistory(content.value)
    ELSE Err("rename chat conversation failed")

\* the first poll of a call: up to its first request, or to its end
FirstPoll(c, self) ==
    CASE c.op = "list_all_conversations" -> Issue(c, ListRequest(self), "await")
      [] c.op = "create_chat_conversation" -> Issue(c, CreateRequest(self, c.id), "await")
      [] c.op = "delete_chat_conversation" ->
            Issue(c, DeleteRequest(self, c.conversation_id), "await")
      [] c.op = "rename_chat_conversation" ->
            Issue(c, RenameRequest(self, c.conversation_id, c.new_title), "await")
      [] c.op = "chat_conversation_history" ->
            Issue(c, HistoryRequest(self, c.conversation_id), "await")
      [] c.op = "upload_attachment" -> upload_start(c, self)
      [] c.op = "send_message" ->
            IF c.attachment.some THEN upload_start(c, self)
            ELSE Issue(c, AppendRequest(self, c.conversation_id, c.prompt, <<>>), "await")

\* the poll that finds what request() returned
Resume(c, self, content) ==
    CASE c.pc = "await_upload" /\ c.op = "upload_attachment" ->
            Finish(c, upload_result(content))
      [] c.pc = "await_upload" /\ c.op = "send_message" ->
            send_after_upload(c, self, upload_result(content))
      [] c.pc = "await" /\ c.op = "send_message" -> Finish(c, send_result(content))
      [] c.pc = "await" /\ c.op = "list_all_conversations" -> Finish(c, list_result(content))
      [] c.pc = "await" /\ c.op = "create_chat_conversation" ->
            Finish(c, create_result(c, content))
      [] c.pc = "await" /\ c.op = "delete_chat_conversation" ->
            Finish(c, delete_result(content))
      [] c.pc = "await" /\ c.op = "rename_chat_conversation" ->
            Finish(c, rename_result(content))
      [] c.pc = "await" /\ c.op = "chat_conversation_history" ->
            Finish(c, history_result(content))

Awaiting(c) == c.pc \in {"await", "await_upload"}

\* uuid::Uuid::new_v4 (api.rs:126)
Uuids == {"u-1", "u-2"}

Ops ==
    {"list_all_conversations", "create_chat_conversation", "delete_chat_conversation",
     "rename_chat_conversation", "chat_conversation_history", "upload_attachment",
     "send_message"}

\* the arguments an operation is invoked with
ArgsOf(op, paths) ==
    CASE op \in {"list_all_conversations", "create_chat_conversation"} ->
            {NewCall(op, "", "", "", NoAttachment)}
      [] op \in {"delete_chat_conversation", "chat_conversation_history"} ->
            {NewCall(op, "u-1", "", "", NoAttachment)}
      [] op = "rename_chat_conversation" ->
            {NewCall(op, "u-1", "new title xxx", "", NoAttachment)}
      [] op = "upload_attachment" ->
            {NewCall(op, "", "", "", Attachment(path)) : path \in paths}
      [] op = "send_message" ->
            {NewCall(op, "u-1", "", "hello world", att) :
                att \in {NoAttachment} \cup {Attachment(path) : path \in paths}}

\* several futures alive at once, as join! or spawn make them
Invoke(paths) ==
    /\ session.kind = "client"
    /\ Len(calls) < MaxCalls
    /\ \E op \in Ops : \E c \in ArgsOf(op, paths) : calls' = Append(calls, c)
    /\ UNCHANGED <<body, reply, orgInput, built, session, remote, test>>

\* one call after the other: the caller awaits each before the next
InvokeNext(paths) ==
    /\ session.kind = "client"
    /\ \A i \in DOMAIN calls : calls[i].pc = "done"
    /\ \E op \in Ops : \E c \in ArgsOf(op, paths) : calls' = <<c>>
    /\ UNCHANGED <<body, reply, orgInput, built, session, remote, test>>

\* the calls the caller still holds: with keep, all of them; without, a future
\* that has returned is dropped with its result
Held(cs, keep) == IF keep THEN cs ELSE SelectSeq(cs, LAMBDA c : c.pc # "done")

Poll(keep) ==
    /\ \E i \in DOMAIN calls :
          /\ calls[i].pc = "start"
          /\ \E id \in (IF calls[i].op = "create_chat_conversation" THEN Uuids ELSE {""}) :
                calls' = Held([calls EXCEPT ![i] =
                                  FirstPoll([@ EXCEPT !.id = id], session)], keep)
    /\ UNCHANGED <<body, reply, orgInput, built, session, remote, test>>

(***************************************************************************)
(* What the network answers.                                               *)
(***************************************************************************)
Date == JStr("2023-07-20T11:54:41.108217+00:00")

MessageDoc(m) ==
    JObj(<<Entry("attachments", JArr(<<>>)), Entry("chat_feedback", JNull),
           Entry("created_at", Date), Entry("edited_at", JNull),
           Entry("index", JNum(<<"1">>)), Entry("sender", JStr(m.sender)),
           Entry("text", JStr(m.text)), Entry("updated_at", Date),
           Entry("uuid", JStr("m"))>>)

ConversationEntries(uuid, name) ==
    <<Entry("created_at", Date), Entry("name", JStr(name)), Entry("summary", JStr("")),
      Entry("updated_at", Date), Entry("uuid", JStr(uuid))>>

HistoryDoc(uuid, name, messages) ==
    JObj(<<Entry("chat_messages", JArr([i \in 1..Len(messages) |-> MessageDoc(messages[i])]))>>
         \o ConversationEntries(uuid, name))

ErrorDoc == JObj(<<Entry("error", JStr("not found"))>>)

GoodBody(c) ==
    CASE c.pc = "await_upload" -> TextBody(<<" ", "1">>)
      [] c.op = "send_message" -> TextBody(Prefix \o <<"1">> \o <<"\n", "\n">>)
      [] c.op = "list_all_conversations" ->
            JsonBody(JArr(<<JObj(ConversationEntries("u-1", "test"))>>))
      [] c.op = "chat_conversation_history" -> JsonBody(HistoryDoc("u-1", "test", <<>>))
      [] OTHER -> JsonBody(JObj(ConversationEntries("u-1", "test")))

BadBody(c) ==
    CASE c.pc = "await_upload" -> TextBody(<<"x">>)
      [] c.op = "send_message" -> TextBody(<<"x", "x", "x", "x", "x", "x", "x">>)
      [] OTHER -> JsonBody(ErrorDoc)

FewOutcomes(c) == {TransportFailure, Response(200, GoodBody(c))}

ManyOutcomes(c) ==
    {TransportFailure}
    \cup {Response(st, b) : st \in {200, 404, 500}, b \in {GoodBody(c), BadBody(c), Garbage}}

\* request() returns to the call that awaits it
Deliver(many, keep) ==
    /\ \E i \in DOMAIN calls :
          /\ Awaiting(calls[i])
          /\ \E outcome \in (IF many THEN ManyOutcomes(calls[i])
                             ELSE FewOutcomes(calls[i])) :
                calls' = Held([calls EXCEPT ![i] =
                                  Resume([@ EXCEPT !.got = Append(@, outcome)],
                                         session, request(outcome))], keep)
    /\ UNCHANGED <<body, reply, orgInput, built, session, remote, test>>

(***************************************************************************)
(* SpecDecode: the closure of send_message on every reply body of the      *)
(* model: up to MaxLines lines joined by "\n", then trailing whitespace.   *)
(***************************************************************************)
LineHeads ==
    {<<>>,
     Prefix,
     <<" ", "d", "a", "t", "a", ":">>,
     <<"d", "a", "t">>,
     <<"E2", "E2", "E2">>,
     <<"E2", "E2", "E2", "E2", "E2", "E2">>}

LinePayloads == {<<>>, <<"1">>, <<"x">>, <<" ", "1", "1">>}

ReplyLines == {h \o p : h \in LineHeads, p \in LinePayloads}

ReplyTails == {<<>>, <<"\n">>, <<"\n", " ", "\n">>, <<"\f">>}

RECURSIVE JoinLines(_)
JoinLines(ls) ==
    IF ls = <<>> THEN <<>>
    ELSE IF Len(ls) = 1 THEN ls[1]
    ELSE ls[1] \o <<"\n">> \o JoinLines(Tail(ls))

ReplyBodies ==
    {JoinLines(ls) \o tl : ls \in SeqsUpTo(ReplyLines, MaxLines), tl \in ReplyTails}

InitDecode ==
    /\ body \in ReplyBodies
    /\ reply = NotRun
    /\ orgInput = [cookie |-> <<>>, proxys |-> <<>>, listing |-> NotRun]
    /\ built = NotRun
    /\ session = NoSession
    /\ calls = <<>>
    /\ remote = <<>>
    /\ test = NoTest

Decode ==
    /\ reply.kind = "NotRun"
    /\ reply' = StreamDecode(body)
    /\ UNCHANGED <<body, orgInput, built, session, calls, remote, test>>

NextDecode == Decode

SpecDecode == InitDecode /\ [][NextDecode]_vars

IsBlank(line) == \A i \in 1..Len(line) : IsWhitespace(line[i])

\* the lines of the body that hold a character other than whitespace
NonBlankLines(s) == SelectSeq(SplitLines(s), LAMBDA l : ~IsBlank(l))

TerminalLine == NonBlankLines(body)[Len(NonBlankLines(body))]

StartsWith(line, pre) == Len(line) >= Len(pre) /\ SubSeq(line, 1, Len(pre)) = pre

AfterPrefix(line) == SubSeq(line, PrefixLen + 1, Len(line))

\* C1 as stated: for every body with a non-empty line, the value returned is the
\* JSON parsed from the last non-empty line without its first 6 characters.
C1_LastLineDecoded ==
    (/\ reply.kind # "NotRun"
     /\ NonBlankLines(body) # <<>>
     /\ Len(TerminalLine) >= PrefixLen)
    => LET expected == ParseJsonText(AfterPrefix(TerminalLine))
       IN  /\ IsOk(expected) => reply = expected
           /\ ~IsOk(expected) => ~IsOk(reply)

\* C2: whenever the body is empty, or its last line does not carry the
\* 6-character prefix, or the text after the prefix is not JSON, send_message
\* returns an error: never a value, never an abnormal termination.
C2_FormatError ==
    (/\ reply.kind # "NotRun"
     /\ \/ NonBlankLines(body) = <<>>
        \/ ~StartsWith(TerminalLine, Prefix)
        \/ ~IsOk(ParseJsonText(AfterPrefix(TerminalLine))))
    => IsErr(reply)

(***************************************************************************)
(* Spec: a Client built once, its proxy setters, and operations invoked    *)
(* on it without end, up to MaxCalls of them alive at the same time.  The  *)
(* caller drops a future when it returns.                                  *)
(***************************************************************************)
HttpProxy == [scheme |-> "http", rest |-> "127.0.0.1:8088"]
FtpProxy == [scheme |-> "ftp", rest |-> "127.0.0.1:21"]

OneOrg == JsonBody(JArr(<<JObj(<<Entry("uuid", JStr("org-1"))>>)>>))

TryNewFew ==
    Construct({<<"k">>}, {<<>>, <<HttpProxy, FtpProxy>>}, {Err("transport"), Ok(OneOrg)})

Next ==
    \/ TryNewFew
    \/ SetProxy({HttpProxy, FtpProxy})
    \/ ResetProxy
    \/ Invoke({"doc.pdf", "missing.pdf"})
    \/ Poll(FALSE)
    \/ Deliver(FALSE, FALSE)

Spec == InitIdle /\ [][Next]_vars

\* the organization a request names: in its URL, its form or its body
OrgOf(r) ==
    IF r.form.some THEN r.form.orgUuid
    ELSE IF Len(r.url) >= 3 /\ r.url[2] = "organizations" THEN r.url[3]
    ELSE Get(r.body.json, "organization_uuid").s

\* C8 as stated: once try_new has returned, no operation changes the cookie, the
\* organization identifier, the proxy list or the base headers, and every
\* request is built from the four values of construction.
C8_SessionReadOnly ==
    session.kind = "client" =>
        /\ session.cookie = built.value.cookie
        /\ session.organization_id = built.value.organization_id
        /\ session.base_header = built.value.base_header
        /\ session.proxys = built.value.proxys
        /\ \A i \in DOMAIN calls : \A k \in DOMAIN calls[i].reqs :
              calls[i].reqs[k].proxys = built.value.proxys

\* C8 amended: no operation changes the cookie, the organization identifier or
\* the base headers; the proxy list changes only through proxy(p) and
\* reset_proxy(), never while an operation is in flight; so every request of an
\* operation is built from the cookie, organization and headers of construction
\* and from the proxy list the Session had when the operation was invoked.
C8_ReadOnlyWhileInFlight ==
    session.kind = "client" =>
        /\ session.cookie = built.value.cookie
        /\ session.organization_id = built.value.organization_id
        /\ session.base_header = built.value.base_header
        /\ \A i \in DOMAIN calls :
              /\ calls[i].pc # "done" => session.proxys = calls[i].self.proxys
              /\ \A k \in DOMAIN calls[i].reqs :
                    /\ calls[i].reqs[k].proxys = calls[i].self.proxys
                    /\ calls[i].reqs[k].headers = built.value.base_header
                    /\ calls[i].reqs[k].headers.Cookie = built.value.cookie
                    /\ OrgOf(calls[i].reqs[k]) = built.value.organization_id

\* two operations in flight at once, one of them at its second request, on a
\* Session whose proxy list a setter has changed since construction
C8_Witness ==
    /\ session.kind = "client"
    /\ session.proxys # built.value.proxys
    /\ \E i, j \in DOMAIN calls :
          /\ i # j
          /\ Awaiting(calls[i]) /\ Awaiting(calls[j])
          /\ Len(calls[i].reqs) = 2

(***************************************************************************)
(* SpecOps: operations invoked one after the other on a built Client, with *)
(* every answer of the network: a transport failure, or a response of any  *)
(* status whose body is the expected one, an unexpected one or no text.    *)
(***************************************************************************)
InitOps ==
    /\ body = <<>>
    /\ reply = NotRun
    /\ orgInput = [cookie |-> <<"k">>, proxys |-> <<HttpProxy>>, listing |-> Ok(OneOrg)]
    /\ built = try_new(<<"k">>, <<HttpProxy>>, Ok(OneOrg))
    /\ session = built.value
    /\ calls = <<>>
    /\ remote = <<>>
    /\ test = NoTest

NextOps ==
    \/ InvokeNext({"doc.pdf", "missing.pdf"})
    \/ Poll(TRUE)
    \/ Deliver(TRUE, TRUE)

SpecOps == InitOps /\ [][NextOps]_vars

IsUploadRequest(r) == r.url = <<"api", "convert_document">> /\ r.form.some

IsAppendRequest(r) == r.url = <<"api", "append_message">> /\ r.body.some

\* C7: upload_attachment of a path that cannot be opened fails with an I/O error
\* before any request is issued, and send_message given such a path fails without
\* issuing any request.
C7_NoRequestForMissingFile ==
    \A i \in DOMAIN calls :
        (/\ calls[i].op \in {"upload_attachment", "send_message"}
         /\ calls[i].attachment.some
         /\ ~FileOpens(calls[i].attachment.path))
        => /\ calls[i].reqs = <<>>
           /\ calls[i].pc \in {"start", "done"}
           /\ calls[i].pc = "done" => calls[i].result = Err("io: no such file")

\* a send_message given a missing file that has returned
C7_Witness ==
    \E i \in DOMAIN calls :
        /\ calls[i].op = "send_message"
        /\ calls[i].attachment.some
        /\ ~FileOpens(calls[i].attachment.path)
        /\ calls[i].pc = "done"

Attachments(r) == Get(r.body.json, "attachments")

UploadDecoded(c) ==
    /\ Len(c.got) >= 1
    /\ c.got[1].kind = "response"
    /\ IsOk(ParseJson(c.got[1].body))

\* C10: without an attachment send_message issues one request, append_message
\* with an empty attachments list; with one it issues the upload first and the
\* append only after the upload has returned decoded JSON, which it carries,
\* encoded, as the only attachment; if the upload fails the append is never
\* issued and the call fails; no request is issued twice.
C10_SendSequencing ==
    \A i \in DOMAIN calls :
        LET c == calls[i]
        IN  c.op = "send_message" =>
            /\ Len(c.got) <= Len(c.reqs)
            /\ c.pc = "done" => Len(c.got) = Len(c.reqs)
            /\ ~c.attachment.some =>
                  /\ Len(c.reqs) <= 1
                  /\ c.pc # "start" => Len(c.reqs) = 1
                  /\ \A k \in DOMAIN c.reqs :
                        IsAppendRequest(c.reqs[k]) /\ Attachments(c.reqs[k]) = JArr(<<>>)
            /\ (c.attachment.some /\ FileOpens(c.attachment.path)) =>
                  /\ Len(c.reqs) <= 2
                  /\ c.pc # "start" => IsUploadRequest(c.reqs[1])
                  /\ Len(c.reqs) = 2 =>
                        /\ UploadDecoded(c)
                        /\ IsAppendRequest(c.reqs[2])
                        /\ Attachments(c.reqs[2]) =
                              JArr(<<JText(JsonToString(ParseJson(c.got[1].body).value))>>)
                  /\ (Len(c.got) >= 1 /\ ~UploadDecoded(c)) =>
                        /\ Len(c.reqs) = 1
                        /\ c.pc = "done"
                        /\ IsErr(c.result)

\* a send_message with an attachment that has issued both requests and returned
\* the decoded reply
C10_Witness ==
    \E i \in DOMAIN calls :
        /\ calls[i].op = "send_message"
        /\ calls[i].attachment.some
        /\ Len(calls[i].reqs) = 2
        /\ calls[i].pc = "done"
        /\ IsOk(calls[i].result)

(***************************************************************************)
(* The remote service, by the endpoint list: its conversations, each with  *)
(* a name and its messages.                                                *)
(***************************************************************************)
RemoteIds == <<"u-0", "u-1", "u-2">>

Absent == [exists |-> FALSE, name |-> "", messages |-> <<>>]

Stored(name, messages) == [exists |-> TRUE, name |-> name, messages |-> messages]

Exists(rem, id) == \E i \in DOMAIN RemoteIds : RemoteIds[i] = id /\ rem[id].exists

Served(response, rem) == [response |-> response, remote |-> rem]

\* the streamed reply: one record per increment, the last one complete
StreamOf(answer) ==
    TextBody(Prefix \o <<"1">> \o <<"\n", "\n">> \o Prefix \o answer \o <<"\n", "\n">>)

ServeCreate(rem, r) ==
    LET id == Get(r.body.json, "uuid").s
        name == Get(r.body.json, "name").s
    IN  IF Exists(rem, id) \/ id \notin DOMAIN rem
        THEN Served(Response(400, JsonBody(ErrorDoc)), rem)
        ELSE Served(Response(201, JsonBody(JObj(ConversationEntries(id, name)))),
                    [rem EXCEPT ![id] = Stored(name, <<>>)])

ServeHistory(rem, r) ==
    IF ~Exists(rem, r.url[5]) THEN Served(Response(404, JsonBody(ErrorDoc)), rem)
    ELSE Served(Response(200, JsonBody(HistoryDoc(r.url[5], rem[r.url[5]].name,
                                                  rem[r.url[5]].messages))), rem)

ServeDelete(rem, r) ==
    IF ~Exists(rem, r.url[5]) THEN Served(Response(404, JsonBody(ErrorDoc)), rem)
    ELSE Served(Response(204, Garbage), [rem EXCEPT ![r.url[5]] = Absent])

ServeRename(rem, r) ==
    LET id == Get(r.body.json, "conversation_uuid").s
    IN  IF ~Exists(rem, id) THEN Served(Response(404, JsonBody(ErrorDoc)), rem)
        ELSE Served(Response(200, JsonBody(JObj(ConversationEntries(
                                     id, Get(r.body.json, "title").s)))),
                    [rem EXCEPT ![id].name = Get(r.body.json, "title").s])

ServeAppend(rem, r) ==
    LET id == Get(r.body.json, "conversation_uuid").s
    IN  IF ~Exists(rem, id) THEN Served(Response(404, TextBody(<<"x">>)), rem)
        ELSE Served(Response(200, StreamOf(<<"1", "1">>)),
                    [rem EXCEPT ![id].messages =
                        @ \o <<[sender |-> "human", text |-> Get(r.body.json, "text").s],
                               [sender |-> "assistant", text |-> "11"]>>])

ServeList(rem, r) ==
    Served(Response(200, JsonBody(JArr(
               [i \in 1..Len(SelectSeq(RemoteIds, LAMBDA id : rem[id].exists)) |->
                   JObj(ConversationEntries(
                       SelectSeq(RemoteIds, LAMBDA id : rem[id].exists)[i],
                       rem[SelectSeq(RemoteIds, LAMBDA id : rem[id].exists)[i]].name))]))),
           rem)

Serve(rem, r) ==
    CASE r.url = <<"api", "rename_chat">> -> ServeRename(rem, r)
      [] r.url = <<"api", "append_message">> -> ServeAppend(rem, r)
      [] r.url = <<"api", "convert_document">> ->
            Served(Response(200, TextBody(<<"1">>)), rem)
      [] Len(r.url) = 4 /\ r.method = "POST" -> ServeCreate(rem, r)
      [] Len(r.url) = 4 /\ r.method = "GET" -> ServeList(rem, r)
      [] Len(r.url) = 5 /\ r.method = "GET" -> ServeHistory(rem, r)
      [] Len(r.url) = 5 /\ r.method = "DELETE" -> ServeDelete(rem, r)

(***************************************************************************)
(* test_full_workflow (api.rs:306-381), followed by the fetch of the       *)
(* deleted conversation.  Each step invokes one operation and awaits it;   *)
(* `?` ends the test on an error, a false assert! panics.                  *)
(***************************************************************************)
Script ==
    <<"list_all_conversations", "create_chat_conversation", "chat_conversation_history",
      "rename_chat_conversation", "send_message", "chat_conversation_history",
      "delete_chat_conversation", "chat_conversation_history">>

NoHistory == [uuid |-> "", name |-> "", chat_messages |-> <<>>]

Titles == {"new title xxx", "test"}

CountSender(his, sender) ==
    Cardinality({i \in DOMAIN his.chat_messages : his.chat_messages[i].sender = sender})

\* api.rs:335-336
AssertFresh(his) == his.name = NEW_CHAT_NAME /\ Len(his.chat_messages) = 0

\* api.rs:358-374
AssertExchanged(his, new_title) ==
    /\ Len(his.chat_messages) = 2
    /\ CountSender(his, "human") = 1
    /\ CountSender(his, "assistant") = 1
    /\ his.name = new_title

InitWorkflow ==
    /\ body = <<>>
    /\ reply = NotRun
    /\ orgInput = [cookie |-> <<"k">>, proxys |-> <<HttpProxy>>, listing |-> Ok(OneOrg)]
    /\ built = try_new(<<"k">>, <<HttpProxy>>, Ok(OneOrg))
    /\ session = built.value
    /\ calls = <<>>
    /\ remote \in {[id \in {RemoteIds[i] : i \in DOMAIN RemoteIds} |-> Absent],
                   [id \in {RemoteIds[i] : i \in DOMAIN RemoteIds} |->
                       IF id = "u-0"
                       THEN Stored("old", <<[sender |-> "human", text |-> "hi"]>>)
                       ELSE Absent]}
    /\ \E new_title \in Titles :
          test = [pc |-> "running", step |-> 1, new_conversation_id |-> "",
                  new_title |-> new_title, his1 |-> NoHistory, his2 |-> NoHistory,
                  last |-> NotRun]

TestInvoke ==
    /\ test.pc = "running"
    /\ test.step <= Len(Script)
    /\ calls' = <<NewCall(Script[test.step],
                          test.new_conversation_id,
                          test.new_title,
                          "hello world",
                          NoAttachment)>>
    /\ test' = [test EXCEPT !.pc = "awaiting"]
    /\ UNCHANGED <<body, reply, orgInput, built, session, remote>>

\* the network: the request is lost, or the service serves it
ServeRemote ==
    /\ \E i \in DOMAIN calls :
          /\ Awaiting(calls[i])
          /\ \E lost \in BOOLEAN :
                LET r == calls[i].reqs[Len(calls[i].reqs)]
                    outcome == IF lost THEN TransportFailure
                               ELSE Serve(remote, r).response
                IN  /\ calls' = [calls EXCEPT ![i] =
                                    Resume([@ EXCEPT !.got = Append(@, outcome)],
                                           session, request(outcome))]
                    /\ remote' = IF lost THEN remote ELSE Serve(remote, r).remote
    /\ UNCHANGED <<body, reply, orgInput, built, session, test>>

TestAwaited ==
    /\ test.pc = "awaiting"
    /\ calls[1].pc = "done"
    /\ LET result == calls[1].result
           next == [test EXCEPT !.pc = "running", !.step = @ + 1, !.last = result]
       IN  test' =
             IF test.step = Len(Script)
             THEN [next EXCEPT !.pc = "finished"]
             ELSE IF ~IsOk(result)
             THEN [test EXCEPT !.pc = "failed", !.last = result]
             ELSE IF test.step = 2
             THEN [next EXCEPT !.new_conversation_id = result.value]
             ELSE IF test.step = 3
             THEN IF AssertFresh(result.value)
                  THEN [next EXCEPT !.his1 = result.value]
                  ELSE [test EXCEPT !.pc = "panicked", !.his1 = result.value]
             ELSE IF test.step = 6
             THEN IF AssertExchanged(result.value, test.new_title)
                  THEN [next EXCEPT !.his2 = result.value]
                  ELSE [test EXCEPT !.pc = "panicked", !.his2 = result.value]
             ELSE next
    /\ UNCHANGED <<body, reply, orgInput, built, session, calls, remote>>

NextWorkflow == TestInvoke \/ Poll(TRUE) \/ ServeRemote \/ TestAwaited

SpecWorkflow == InitWorkflow /\ [][NextWorkflow]_vars

\* C6: after create, the history of the new conversation has the default name
\* and no message; after rename to T and one send_message without attachment it
\* has the name T and two messages, one of the human and one of the assistant;
\* after delete, the fetch of the same conversation fails.
C6_RoundTrip ==
    /\ test.pc # "panicked"
    /\ test.step > 3 =>
          /\ test.his1.uuid = test.new_conversation_id
          /\ test.his1.name = NEW_CHAT_NAME
          /\ Len(test.his1.chat_messages) = 0
    /\ test.step > 6 =>
          /\ test.his2.uuid = test.new_conversation_id
          /\ test.his2.name = test.new_title
          /\ Len(test.his2.chat_messages) = 2
          /\ CountSender(test.his2, "human") = 1
          /\ CountSender(test.his2, "assistant") = 1
    /\ test.pc = "finished" => ~IsOk(test.last)

\* the whole scenario has run against a service that held another conversation,
\* every request served, and the last fetch has got the answer of the service
C6_Witness ==
    /\ test.pc = "finished"
    /\ remote["u-0"].exists
    /\ test.new_title = "new title xxx"
    /\ calls[1].got[1].kind = "response"
    /\ calls[1].got[1].status = 404
=============================================================================
